---- MODULE Spec2Model ----
(***************************************************************************)
(* porcupine: the Win32 event reactor and the re-entrancy-safe dispatch    *)
(* pipeline (reactor.rs, window.rs, wndproc.rs, client.rs).                *)
(*                                                                         *)
(* The program is one thread.  Its call stack is the variable `stack`:     *)
(* the application calls create_window / block_on / drops a Window; the    *)
(* native side calls the window procedure back (synchronously while a      *)
(* window is created or destroyed, from DispatchMessageA while the reactor *)
(* drains, and re-entrantly from native calls made by the user handler).   *)
(***************************************************************************)
EXTENDS Integers, Sequences, FiniteSets, TLC

\* ---------------------------------------------------------------- bounds
MaxWindows == 2      \* window handles 1..MaxWindows (0 is the null handle)
MaxPushes  == 2      \* events pushed, all windows together, in the WindowData harness
MaxNest    == 2      \* dispatch scopes held at once in the WindowData harness
MaxMsgs    == 2      \* length of the thread's native message queue
MaxStack   == 6      \* depth of the call stack
MaxPosts   == 1      \* messages posted to the native queue from outside
MaxCalls   == 2      \* top-level calls the application makes
MaxHandles == 3      \* handles of the Event harness (1 is the original)
MaxSets    == 2      \* Event::set calls between two waits in the Event harness
MaxStray   == 1      \* calls of the window procedure outside the usual order

Hwnds == 1 .. MaxWindows

\* event.rs: the two variants of Event
Events == {"Created", "__NonExhaustive"}

\* Panic payloads.  0 is "no panic" (Option::None).
NoPanic          == 0
UserPayloads     == {1, 2}      \* payloads the user handler may panic with
BorrowMutError   == 0 - 1       \* RefCell::borrow_mut on a borrowed cell
CountNotSet      == 0 - 2       \* "Re-entrancy count is not set."
Unreachable      == 0 - 3       \* unreachable!("Count should never be zero ...")

\* ------------------------------------------------------------ WindowData
\* window.rs WindowData: message_queue, rentrancy_count (0 is None), panic
\* (0 is None); `borrowed` is the RefCell's borrow flag of message_queue and
\* `live` says the box is allocated.
NoData ==
  [live |-> FALSE, message_queue |-> <<>>, rentrancy_count |-> 0,
   panic |-> NoPanic, borrowed |-> FALSE]

WindowData_new ==
  [live |-> TRUE, message_queue |-> <<>>, rentrancy_count |-> 0,
   panic |-> NoPanic, borrowed |-> FALSE]

\* The outcome of a piece of code run on a WindowData w: the new value of the
\* WindowData, the payload it unwinds with (NoPanic when it returns), whether
\* the process aborted, and whether a dispatch pass (process) was started and
\* is now holding the queue's borrow.
Outcome(w, unwind, abort, started) ==
  [w |-> w, unwind |-> unwind, abort |-> abort, started |-> started]

\* A faulty variant of push: the event goes to the front of the queue.
push_front(w, event) ==
  IF w.borrowed
    THEN Outcome(w, BorrowMutError, FALSE, FALSE)
    ELSE Outcome([w EXCEPT !.message_queue = <<event>> \o @],
                 NoPanic, FALSE, FALSE)

\* WindowData::push: message_queue.borrow_mut().push_back(event)
push(w, event) ==
  IF w.borrowed
    THEN Outcome(w, BorrowMutError, FALSE, FALSE)
    ELSE Outcome([w EXCEPT !.message_queue = Append(@, event)],
                 NoPanic, FALSE, FALSE)

\* WindowData::begin, the part that runs at the call: bump the count.
begin(w) == [w EXCEPT !.rentrancy_count = @ + 1]

\* WindowData::process up to its first pop: borrow the queue.
process_enter(w) ==
  IF w.borrowed
    THEN Outcome(w, BorrowMutError, FALSE, FALSE)
    ELSE Outcome([w EXCEPT !.borrowed = TRUE], NoPanic, FALSE, TRUE)

\* A faulty variant of the guard's drop: it starts the pass at every release.
guard_drop_eager(w) ==
  IF w.rentrancy_count = 0
    THEN Outcome(w, CountNotSet, FALSE, FALSE)
    ELSE process_enter([w EXCEPT !.rentrancy_count = @ - 1])

\* A faulty variant of the guard's drop: the last release starts the pass
\* and leaves the count as it is.
guard_drop_keep(w) ==
  IF w.rentrancy_count = 0
    THEN Outcome(w, CountNotSet, FALSE, FALSE)
    ELSE IF w.rentrancy_count - 1 = 0
      THEN process_enter(w)
      ELSE Outcome([w EXCEPT !.rentrancy_count = @ - 1], NoPanic, FALSE, FALSE)

\* The guard's drop (the closure of CallOnDrop in WindowData::begin).
guard_drop(w) ==
  IF w.rentrancy_count = 0
    THEN Outcome(w, CountNotSet, FALSE, FALSE)
    ELSE IF w.rentrancy_count - 1 = 0
      THEN process_enter([w EXCEPT !.rentrancy_count = 0])
      ELSE Outcome([w EXCEPT !.rentrancy_count = @ - 1], NoPanic, FALSE, FALSE)

\* ----------------------------------------------------------------- Event
\* reactor.rs Event: a handle to a native event object made by CreateEventW
\* with bManualReset = 0 and bInitialState = 0.
Handles == 1 .. MaxHandles

\* Event::new: the first handle is open on object 1, which is not signalled;
\* nothing has been set, dropped or waited for.
Event_new ==
  [handles  |-> [h \in Handles |-> IF h = 1 THEN [state |-> "open", obj |-> 1]
                                            ELSE [state |-> "free", obj |-> 0]],
   signaled |-> [o \in Handles |-> FALSE],
   sets     |-> 0,
   setters  |-> {},
   dropped  |-> {},
   waits    |-> <<>>]

\* Event::set: SetEvent on the object.
SetEvent(sig) == TRUE

\* A faulty variant of the wait: the object stays signalled (manual reset).
WaitForSingleObject_manual_reset(sig) == [woke |-> sig, signaled |-> sig]

\* A wait on the object of an auto-reset event: it succeeds when the object
\* is signalled, and the object is not signalled afterwards.
WaitForSingleObject(sig) == [woke |-> sig, signaled |-> FALSE]

\* A faulty variant of try_clone: the new handle is on an object of its own.
DuplicateHandle_fresh(hs, h, n) == n

\* Event::try_clone: DuplicateHandle, the object the new handle n is on.
DuplicateHandle(hs, h, n) == hs[h].obj

\* A faulty variant of the drop: every handle of the object is closed.
CloseHandle_object(hs, h) ==
  [g \in Handles |-> IF hs[g].state = "open" /\ hs[g].obj = hs[h].obj
                       THEN [hs[g] EXCEPT !.state = "closed"] ELSE hs[g]]

\* Drop for Event: CloseHandle on this handle.
CloseHandle(hs, h) == [hs EXCEPT ![h].state = "closed"]

\* ----------------------------------------------------------------- state
VARIABLES
  windows,       \* the WindowData allocated for each handle (NoData: none)
  slot,          \* GWLP_USERDATA of each handle: 0, or the handle whose
                 \* WindowData it points to
  hwnds,         \* each handle: "free" (never used), "window" (IsWindow is
                 \* true), "gone" (destroyed) or "foreign" (a window of a
                 \* class whose procedure is not wndproc.rs's)
  window_count,  \* client.rs Inner::window_count (0 is None)
  msgq,          \* the thread's native message queue
  signal,        \* the reactor's notify event (auto-reset): TRUE when set
  stack,         \* the call stack of the one thread, innermost frame last
  aborted,       \* the process has aborted
  delivered,     \* per handle: the events handed to the handler, in order
  pushed,        \* per handle: the events push appended, in order, each
                 \* with the re-entrancy count at the time of the push
  reactor,       \* the block_on call in progress or last made
  app,           \* the application: the Windows it owns, the calls it made
                 \* and how its last create_window call ended
  std,           \* the build has the `std` feature (panics can be caught)
  wake           \* reactor.rs Event values driven directly: their handles,
                 \* the native event objects behind them, and what was done

vars == <<windows, slot, hwnds, window_count, msgq, signal, stack, aborted,
          delivered, pushed, reactor, app, std, wake>>

\* A frame of the call stack; n carries a panic payload where one is needed.
Frame(kind, hwnd, msg, pc, ev, n) ==
  [kind |-> kind, hwnd |-> hwnd, msg |-> msg, pc |-> pc, ev |-> ev, n |-> n]

Top == stack[Len(stack)]
Pop == SubSeq(stack, 1, Len(stack) - 1)
TopIs(kind) == Len(stack) > 0 /\ Top.kind = kind
SetTop(f) == [stack EXCEPT ![Len(stack)] = f]
SetPc(pc) == [stack EXCEPT ![Len(stack)].pc = pc]

Msg(hwnd, msg) == [hwnd |-> hwnd, message |-> msg]
WM_QUIT == Msg(0, "WM_QUIT")

\* task: the future given to block_on ("ready": future::ready, "never":
\* future::pending as in run, "timer": pending until another thread fires it
\* and calls the waker).  polls saturates at 2.  drained: a message was
\* removed from the native queue by this call.  lastPeek: what the last
\* PeekMessageA of this call saw.  caught: the last handler panic captured
\* while this call was running.  ret: how the call returned.  lastWait: what
\* MsgWaitForMultipleObjectsEx returned, until the next poll or PeekMessageA.
NoReactor ==
  [task |-> "none", fired |-> FALSE, polls |-> 0, drained |-> FALSE,
   lastPeek |-> "none", caught |-> NoPanic, ret |-> "none",
   lastWait |-> "none", listener |-> "none"]

\* signal_new_message: MESSAGE_RECEIVED.notify_additional(usize::MAX) notifies
\* every listener there is; a notification without a listener is not kept.
signal_new_message(r) ==
  IF r.listener = "listening" THEN [r EXCEPT !.listener = "notified"] ELSE r

\* A faulty variant of wait_for_message: the listener is never registered.
wait_for_message_unheard(r) == r

\* wait_for_message, polled and not yet notified: the first poll runs
\* MESSAGE_RECEIVED.listen(), which registers the listener.
wait_for_message(r) ==
  IF r.task = "listener" /\ r.listener = "none"
    THEN [r EXCEPT !.listener = "listening"] ELSE r

\* How often the boxed user payload given to the creation of each handle was
\* released (index 0: the payload of a call that got no handle).
NoRelease == [h \in 0 .. MaxWindows |-> 0]

\* How many guards returned by begin are alive for each window.
NoGuards == [h \in 1 .. MaxWindows |-> 0]

NoCall == [res |-> "none", hwnd |-> 0, payload |-> NoPanic, captured |-> NoPanic,
           count |-> 0]

\* --------------------------------------------------- the dispatch pass
\* WindowData::process, one turn of `while let Some(event) = pop_front()`:
\* the event leaves the queue and the handler is called with it.
ProcessPop ==
  /\ ~aborted
  /\ TopIs("process")
  /\ LET h == Top.hwnd
         w == windows[h]
     IN /\ w.message_queue # <<>>
        /\ windows' = [windows EXCEPT ![h].message_queue = Tail(@)]
        /\ delivered' = [delivered EXCEPT ![h] = Append(@, Head(w.message_queue))]
        /\ stack' = Append(stack, Frame("handler", h, "", "run", Head(w.message_queue), NoPanic))
  /\ UNCHANGED <<std, wake, slot, hwnds, window_count, msgq, signal, aborted, pushed, reactor, app>>

\* WindowData::process, the end of the loop: pop_front returned None, the
\* borrow of the queue ends and process returns to the guard's drop.
ProcessDone ==
  /\ ~aborted
  /\ TopIs("process")
  /\ LET h == Top.hwnd
     IN /\ windows[h].message_queue = <<>>
        /\ windows' = [windows EXCEPT ![h].borrowed = FALSE]
        /\ stack' = Pop
  /\ UNCHANGED <<std, wake, slot, hwnds, window_count, msgq, signal, aborted, delivered,
                 pushed, reactor, app>>

\* class.rs run_handler: the user's closure returns.
HandlerReturn ==
  /\ ~aborted
  /\ TopIs("handler")
  /\ stack' = Pop
  /\ UNCHANGED <<std, wake, windows, slot, hwnds, window_count, msgq, signal, aborted,
                 delivered, pushed, reactor, app>>

\* ------------------------------------------- WindowData, driven directly
\* begin / push / guard release called on a live WindowData the way the
\* window procedure calls them, in any order and nesting.
InitScope ==
  /\ windows = [h \in Hwnds |-> WindowData_new]
  /\ slot = [h \in Hwnds |-> h]
  /\ hwnds = [h \in Hwnds |-> "window"]
  /\ window_count = MaxWindows
  /\ msgq = <<>>
  /\ signal = FALSE
  /\ stack = <<>>
  /\ aborted = FALSE
  /\ delivered = [h \in Hwnds |-> <<>>]
  /\ pushed = [h \in Hwnds |-> <<>>]
  /\ reactor = NoReactor
  /\ app = [owned |-> Hwnds, calls |-> 0, posts |-> 0, stray |-> 0, last |-> NoCall,
            released |-> NoRelease, guards |-> NoGuards]
  /\ std = TRUE
  /\ wake = Event_new

RECURSIVE SumLen(_, _)
SumLen(f, S) ==
  IF S = {} THEN 0
  ELSE LET x == CHOOSE y \in S : TRUE IN Len(f[x]) + SumLen(f, S \ {x})

ScopeBegin(h) ==
  /\ stack = <<>>
  /\ windows[h].rentrancy_count < MaxNest
  /\ windows' = [windows EXCEPT ![h] = begin(@)]
  /\ app' = [app EXCEPT !.guards[h] = @ + 1]
  /\ UNCHANGED <<std, wake, slot, hwnds, window_count, msgq, signal, stack, aborted,
                 delivered, pushed, reactor>>

ScopePush(h, event) ==
  /\ stack = <<>>
  /\ SumLen(pushed, Hwnds) < MaxPushes
  /\ LET o == push(windows[h], event)
     IN /\ windows' = [windows EXCEPT ![h] = o.w]
        /\ pushed' = [pushed EXCEPT ![h] =
              Append(@, [ev |-> event, depth |-> windows[h].rentrancy_count])]
  /\ UNCHANGED <<std, wake, slot, hwnds, window_count, msgq, signal, stack, aborted,
                 delivered, reactor, app>>

ScopeRelease(h) ==
  /\ stack = <<>>
  /\ app.guards[h] > 0
  /\ LET o == guard_drop(windows[h])
     IN /\ windows' = [windows EXCEPT ![h] = o.w]
        /\ stack' = IF o.started THEN <<Frame("process", h, "", "loop", "", NoPanic)>>
                                 ELSE stack
  /\ app' = [app EXCEPT !.guards[h] = @ - 1]
  /\ UNCHANGED <<std, wake, slot, hwnds, window_count, msgq, signal, aborted, delivered,
                 pushed, reactor>>

NextScope ==
  \/ \E h \in Hwnds : ScopeBegin(h)
  \/ \E h \in Hwnds, event \in Events : ScopePush(h, event)
  \/ \E h \in Hwnds : ScopeRelease(h)
  \/ ProcessPop
  \/ ProcessDone
  \/ HandlerReturn

SpecScope == InitScope /\ [][NextScope]_vars

\* ------------------------------------------------ Event, driven directly
\* set / try_clone / drop / wait called on the Event values the way
\* tests::test_event calls them (the wait is WaitForSingleObject with a
\* timeout), on any open handle and in any order.  waits keeps the last two
\* waits: the handle, whether the wait succeeded, how many sets came before
\* it, whether one of them was on another handle, and whether a handle had
\* been dropped by then.  (A try_clone that fails changes nothing.)
InitEvent ==
  /\ windows = [h \in Hwnds |-> NoData]
  /\ slot = [h \in Hwnds |-> 0]
  /\ hwnds = [h \in Hwnds |-> "free"]
  /\ window_count = 0
  /\ msgq = <<>>
  /\ signal = FALSE
  /\ stack = <<>>
  /\ aborted = FALSE
  /\ delivered = [h \in Hwnds |-> <<>>]
  /\ pushed = [h \in Hwnds |-> <<>>]
  /\ reactor = NoReactor
  /\ app = [owned |-> {}, calls |-> 0, posts |-> 0, stray |-> 0, last |-> NoCall,
            released |-> NoRelease, guards |-> NoGuards]
  /\ std = TRUE
  /\ wake = Event_new

IsOpen(h) == wake.handles[h].state = "open"
LastTwo(q) == IF Len(q) > 2 THEN Tail(q) ELSE q
NotEvent == <<windows, slot, hwnds, window_count, msgq, signal, stack, aborted,
              delivered, pushed, reactor, app, std>>

EventSet(h) ==
  /\ IsOpen(h)
  /\ wake.sets < MaxSets
  /\ wake' = [wake EXCEPT
        !.signaled[wake.handles[h].obj] = SetEvent(@),
        !.sets = @ + 1,
        !.setters = @ \cup {h}]
  /\ UNCHANGED NotEvent

EventTryClone(h) ==
  /\ IsOpen(h)
  /\ \E n \in Handles :
        /\ wake.handles[n].state = "free"
        /\ \A m \in Handles : wake.handles[m].state = "free" => n <= m
        /\ wake' = [wake EXCEPT !.handles[n] =
              [state |-> "open", obj |-> DuplicateHandle(wake.handles, h, n)]]
  /\ UNCHANGED NotEvent

EventDrop(h) ==
  /\ IsOpen(h)
  /\ wake' = [wake EXCEPT !.handles = CloseHandle(@, h),
                            !.dropped = @ \cup {h}]
  /\ UNCHANGED NotEvent

EventWait(h) ==
  /\ IsOpen(h)
  /\ LET o == wake.handles[h].obj
         r == WaitForSingleObject(wake.signaled[o])
     IN wake' = [wake EXCEPT
          !.signaled[o] = r.signaled,
          !.sets = 0,
          !.setters = {},
          !.waits = LastTwo(Append(@,
             [h |-> h, woke |-> r.woke, sets |-> wake.sets,
              other |-> wake.setters \ {h} # {},
              dropped |-> wake.dropped # {}]))]
  /\ UNCHANGED NotEvent

\* Wake::wake on the Arc that holds the only reference to the Event: set,
\* then the Event is dropped with the Arc.
EventWake(h) ==
  /\ IsOpen(h)
  /\ wake.sets < MaxSets
  /\ wake' = [wake EXCEPT
        !.signaled[wake.handles[h].obj] = SetEvent(@),
        !.sets = @ + 1,
        !.setters = @ \cup {h},
        !.handles = CloseHandle(@, h),
        !.dropped = @ \cup {h}]
  /\ UNCHANGED NotEvent

NextEvent ==
  \/ \E h \in Handles : EventSet(h)
  \/ \E h \in Handles : EventWake(h)
  \/ \E h \in Handles : EventTryClone(h)
  \/ \E h \in Handles : EventDrop(h)
  \/ \E h \in Handles : EventWait(h)

SpecEvent == InitEvent /\ [][NextEvent]_vars

\* ------------------------------------------------------------ the program
Init ==
  /\ windows = [h \in Hwnds |-> NoData]
  /\ slot = [h \in Hwnds |-> 0]
  /\ hwnds = [h \in Hwnds |-> "free"]
  /\ window_count = 0
  /\ msgq = <<>>
  /\ signal = FALSE
  /\ stack = <<>>
  /\ aborted = FALSE
  /\ delivered = [h \in Hwnds |-> <<>>]
  /\ pushed = [h \in Hwnds |-> <<>>]
  /\ reactor = NoReactor
  /\ app = [owned |-> {}, calls |-> 0, posts |-> 0, stray |-> 0, last |-> NoCall,
            released |-> NoRelease, guards |-> NoGuards]
  /\ std \in BOOLEAN
  /\ wake = Event_new

Running == ~aborted
AtMain == Running /\ stack = <<>>

\* ---- client.rs
\* Client::increment_window_count (the overflow of the u32 is out of reach).
increment_window_count(count) == count + 1

\* A faulty variant of decrement_window_count: no PostQuitMessage.
decrement_window_count_quiet(count) ==
  IF count = 0
    THEN [count |-> count, quit |-> FALSE, unwind |-> Unreachable]
    ELSE [count |-> count - 1, quit |-> FALSE, unwind |-> NoPanic]

\* Client::decrement_window_count: the new count, whether PostQuitMessage
\* was called, and the payload it panics with (a count that is None reaches
\* unreachable!() and nothing is changed).
decrement_window_count(count) ==
  LET new_count == IF count - 1 > 0 THEN count - 1 ELSE 0
  IN IF count = 0
       THEN [count |-> count, quit |-> FALSE, unwind |-> Unreachable]
       ELSE [count |-> new_count, quit |-> new_count = 0, unwind |-> NoPanic]

\* ---- wndproc.rs, handle_window_message from `window_data.catch_panic`
\* The closure given to catch_panic: begin, push Created for WM_CREATE, and
\* the guard's drop at the end of the closure.  A panic of push unwinds
\* through the guard, whose drop runs too; a panic of that drop, raised
\* while unwinding, aborts the process.
scope_body(w, msg) ==
  LET w1 == begin(w)
      p  == IF msg = "WM_CREATE" THEN push(w1, "Created")
                                 ELSE Outcome(w1, NoPanic, FALSE, FALSE)
  IN IF p.unwind # NoPanic
       THEN LET d == guard_drop(p.w)
            IN IF d.unwind # NoPanic
                 THEN Outcome(d.w, p.unwind, TRUE, FALSE)
                 ELSE Outcome(d.w, p.unwind, FALSE, d.started)
       ELSE guard_drop(p.w)

\* A faulty variant of catch_panic: a full slot is overwritten silently.
catch_panic_overwrite(o) ==
  IF o.abort \/ o.unwind = NoPanic \/ ~std THEN o
  ELSE Outcome([o.w EXCEPT !.panic = o.unwind], NoPanic, FALSE, o.started)

\* WindowData::catch_panic.  With std: what is left once catch_unwind has
\* caught the panic o.unwind, if any: the payload goes to the panic slot, and
\* a slot that is already full aborts the process.  Without std: f() is
\* called as it is and its panic goes on.
catch_panic(o) ==
  IF o.abort \/ o.unwind = NoPanic \/ ~std THEN o
  ELSE IF o.w.panic # NoPanic
    THEN Outcome([o.w EXCEPT !.panic = o.unwind], NoPanic, TRUE, o.started)
    ELSE Outcome([o.w EXCEPT !.panic = o.unwind], NoPanic, FALSE, o.started)

\* A faulty variant of abort_on_panic: no guard, the panic goes on.
abort_on_panic_forget(o) == o

\* lib.rs abort_on_panic around the whole window procedure: a panic that
\* reaches it drops the AbortOnPanic guard, which aborts the process.
abort_on_panic(o) ==
  IF o.abort \/ o.unwind = NoPanic THEN o
  ELSE Outcome(o.w, NoPanic, TRUE, o.started)

\* A faulty variant: the procedure returns without the default procedure.
AfterBody_return(f, o) == [f EXCEPT !.pc = "returned"]

\* The frame of a window procedure that an outcome leaves behind: on its way
\* to the default procedure, or (were a panic to get past abort_on_panic)
\* unwinding into the native caller.
AfterBody(f, o) ==
  IF o.unwind # NoPanic /\ ~o.abort
    THEN [f EXCEPT !.pc = "unwind", !.n = o.unwind]
  ELSE [f EXCEPT !.pc = "default"]

\* A faulty variant: the unwinding leaves the queue borrowed.
process_unwind_locked(w) == w

\* A panic of the handler unwinds through WindowData::process: `queue`, the
\* RefMut of message_queue, is dropped and nothing else is touched.
process_unwind(w) == [w EXCEPT !.borrowed = FALSE]

\* The handler panics in a pass that runs inside WindowData::catch_panic,
\* the way the window procedure runs it.
ScopeHandlerPanic(payload) ==
  /\ ~aborted
  /\ TopIs("handler")
  /\ LET h == Top.hwnd
         o == catch_panic(Outcome(process_unwind(windows[h]), payload, FALSE, FALSE))
     IN /\ windows' = [windows EXCEPT ![h] = o.w]
        /\ aborted' = o.abort
        /\ stack' = IF o.abort THEN stack ELSE <<>>
  /\ UNCHANGED <<std, wake, slot, hwnds, window_count, msgq, signal, delivered,
                 pushed, reactor, app>>

\* One window is enough here: no step on one WindowData touches another.
NextCatch ==
  \/ ScopeBegin(1)
  \/ \E event \in Events : ScopePush(1, event)
  \/ ScopeRelease(1)
  \/ ProcessPop
  \/ ProcessDone
  \/ HandlerReturn
  \/ \E payload \in UserPayloads : ScopeHandlerPanic(payload)

SpecCatch == InitScope /\ [][NextCatch]_vars

\* WindowData::propagate_panic: panic.take() and resume_unwind with std,
\* nothing without.
propagate_panic(w) ==
  IF std THEN [w |-> [w EXCEPT !.panic = NoPanic], raised |-> w.panic]
         ELSE [w |-> w, raised |-> NoPanic]

\* PostQuitMessage: the thread's quit flag; a WM_QUIT is delivered once the
\* messages posted before it have been retrieved.
PostQuitMessage(q) == IF \E i \in 1 .. Len(q) : q[i] = WM_QUIT THEN q
                      ELSE Append(q, WM_QUIT)

\* The messages the native side hands to the window procedure.
SentMessages == {"WM_OTHER", "WM_CREATE", "WM_CLOSE"}

InDestroy(h) ==
  \E i \in 1 .. Len(stack) : stack[i].kind = "destroy" /\ stack[i].hwnd = h

WndProcFrame(h, msg) == Frame("wndproc", h, msg, "entry", "", NoPanic)
DestroyFrame(h, pc) == Frame("destroy", h, "", pc, "", NoPanic)
InWndProc(pc) == Running /\ TopIs("wndproc") /\ Top.pc = pc

\* ---- wndproc.rs handle_window_message
\* A faulty variant of the two checks: only the null handle is turned away.
ValidWindow_nonnull(h) == h # 0

\* hwnd != 0 and IsWindow(hwnd) != 0
ValidWindow(h) == IF h = 0 THEN FALSE ELSE hwnds[h] = "window"

\* WM_NCCREATE: the WindowData is built and stored in GWLP_USERDATA.
WndProcNcCreate ==
  /\ InWndProc("entry")
  /\ ValidWindow(Top.hwnd)
  /\ Top.msg = "WM_NCCREATE"
  /\ windows' = [windows EXCEPT ![Top.hwnd] = WindowData_new]
  /\ slot' = [slot EXCEPT ![Top.hwnd] = Top.hwnd]
  /\ stack' = SetPc("default")
  /\ UNCHANGED <<std, wake, hwnds, window_count, msgq, signal, aborted, delivered,
                 pushed, reactor, app>>

\* A faulty variant of the WM_NCDESTROY arm: GWLP_USERDATA is left as it is.
clear_user_data_keep(s, h) == s

\* SetWindowLongPtrA(hwnd, GWLP_USERDATA, 0) of the WM_NCDESTROY arm.
clear_user_data(s, h) == [s EXCEPT ![h] = 0]

\* WM_NCDESTROY: the slot is cleared, the WindowData dropped and the window
\* count decremented; the panic of a decrement that finds the count None
\* reaches abort_on_panic.  (A slot that is null here, which no behaviour of
\* this model reaches, ends the process too.)
WndProcNcDestroy ==
  /\ InWndProc("entry")
  /\ ValidWindow(Top.hwnd)
  /\ Top.msg = "WM_NCDESTROY"
  /\ LET h == Top.hwnd
         user_data == slot[h]
         d == decrement_window_count(window_count)
         o == abort_on_panic(Outcome(NoData, d.unwind, FALSE, FALSE))
     IN /\ slot' = clear_user_data(slot, h)
        /\ windows' = IF user_data = 0 THEN windows
                      ELSE [windows EXCEPT ![user_data] = o.w]
        /\ aborted' = (user_data = 0 \/ o.abort)
        /\ window_count' = IF user_data = 0 THEN window_count ELSE d.count
        /\ msgq' = IF user_data # 0 /\ d.quit THEN PostQuitMessage(msgq) ELSE msgq
        /\ stack' = IF aborted' THEN stack ELSE SetTop(AfterBody(Top, o))
        /\ app' = IF user_data = 0 THEN app
                  ELSE [app EXCEPT !.released[user_data] = @ + 1]
  /\ UNCHANGED <<std, wake, hwnds, signal, delivered, pushed, reactor>>

\* hwnd == 0, or IsWindow(hwnd) == 0: a warning and bail_default!().
WndProcReject ==
  /\ InWndProc("entry")
  /\ ~ValidWindow(Top.hwnd)
  /\ stack' = SetPc("default")
  /\ UNCHANGED <<std, wake, windows, slot, hwnds, window_count, msgq, signal, aborted,
                 delivered, pushed, reactor, app>>

\* A faulty variant: no message is let through with a null GWLP_USERDATA.
early_message_none(msg) == FALSE

\* The message the default arm lets through when GWLP_USERDATA is null.
early_message(msg) == msg = "WM_GETMINMAXINFO"

\* WM_GETMINMAXINFO before WM_NCCREATE: nothing to do.
WndProcEarly ==
  /\ InWndProc("entry")
  /\ ValidWindow(Top.hwnd)
  /\ Top.msg \notin {"WM_NCCREATE", "WM_NCDESTROY"}
  /\ early_message(Top.msg) /\ slot[Top.hwnd] = 0
  /\ stack' = SetPc("default")
  /\ UNCHANGED <<std, wake, windows, slot, hwnds, window_count, msgq, signal, aborted,
                 delivered, pushed, reactor, app>>

\* Any other message of a window whose GWLP_USERDATA is null:
\* debug_assert_ne!(user_data, 0) and then `&*user_ptr`.  With debug
\* assertions the panic reaches abort_on_panic.  Without them a reference
\* is made from the null pointer and catch_panic is called on it: the
\* process may end there, or run on with whatever it reads ("null" in the
\* frame marks a procedure that ran on).
NullDataOutcomes == {"abort", "null"}

WndProcNoData ==
  /\ InWndProc("entry")
  /\ ValidWindow(Top.hwnd)
  /\ Top.msg \notin {"WM_NCCREATE", "WM_NCDESTROY"}
  /\ ~early_message(Top.msg) /\ slot[Top.hwnd] = 0
  /\ \E outcome \in NullDataOutcomes :
        /\ aborted' = (outcome = "abort")
        /\ stack' = IF outcome = "abort" THEN stack
                    ELSE SetTop([Top EXCEPT !.pc = "default", !.ev = "null"])
  /\ UNCHANGED <<std, wake, windows, slot, hwnds, window_count, msgq, signal,
                 delivered, pushed, reactor, app>>

\* Any other message of a window whose slot is set: catch_panic around
\* begin, push and the guard's drop.  When the drop starts the dispatch pass
\* the pass runs as the next frame, inside catch_panic.
WndProcScope ==
  /\ InWndProc("entry")
  /\ ValidWindow(Top.hwnd)
  /\ Top.msg \notin {"WM_NCCREATE", "WM_NCDESTROY"}
  /\ slot[Top.hwnd] # 0
  /\ LET h == Top.hwnd
         w == windows[slot[h]]
         o == abort_on_panic(catch_panic(scope_body(w, Top.msg)))
     IN /\ windows' = [windows EXCEPT ![slot[h]] = o.w]
        /\ aborted' = o.abort
        /\ pushed' = IF Len(o.w.message_queue) > Len(w.message_queue)
                       THEN [pushed EXCEPT ![h] = Append(@,
                               [ev |-> "Created", depth |-> w.rentrancy_count + 1])]
                       ELSE pushed
        /\ stack' = IF o.started
                      THEN Append(SetTop(AfterBody(Top, o)),
                                  Frame("process", h, "", "loop", "", NoPanic))
                      ELSE SetTop(AfterBody(Top, o))
  /\ UNCHANGED <<std, wake, slot, hwnds, window_count, msgq, signal, delivered, reactor, app>>

\* bail_default!(): the default procedure, whose result is returned.
WndProcDefault ==
  /\ InWndProc("default")
  /\ ~(/\ Top.msg = "WM_CLOSE" /\ Top.hwnd # 0
       /\ hwnds[Top.hwnd] = "window" /\ ~InDestroy(Top.hwnd))
  /\ stack' = Pop
  /\ UNCHANGED <<std, wake, windows, slot, hwnds, window_count, msgq, signal, aborted,
                 delivered, pushed, reactor, app>>

\* DefWindowProcA of WM_CLOSE calls DestroyWindow.
WndProcDefaultClose ==
  /\ InWndProc("default")
  /\ Top.msg = "WM_CLOSE" /\ Top.hwnd # 0
  /\ hwnds[Top.hwnd] = "window" /\ ~InDestroy(Top.hwnd)
  /\ stack' = SetTop(DestroyFrame(Top.hwnd, "wm_destroy"))
  /\ UNCHANGED <<std, wake, windows, slot, hwnds, window_count, msgq, signal, aborted,
                 delivered, pushed, reactor, app>>

\* ---- DestroyWindow: WM_DESTROY, then WM_NCDESTROY, then the handle is gone
\* and the messages posted to it are discarded.
DestroySend ==
  /\ Running /\ TopIs("destroy")
  /\ Top.pc \in {"wm_destroy", "wm_ncdestroy"}
  /\ stack' = Append(
       SetPc(IF Top.pc = "wm_destroy" THEN "wm_ncdestroy" ELSE "done"),
       WndProcFrame(Top.hwnd,
                    IF Top.pc = "wm_destroy" THEN "WM_DESTROY" ELSE "WM_NCDESTROY"))
  /\ UNCHANGED <<std, wake, windows, slot, hwnds, window_count, msgq, signal, aborted,
                 delivered, pushed, reactor, app>>

Purge(q, h) == SelectSeq(q, LAMBDA m : m.hwnd # h)

DestroyDone ==
  /\ Running /\ TopIs("destroy")
  /\ Top.pc = "done"
  /\ hwnds' = [hwnds EXCEPT ![Top.hwnd] = "gone"]
  /\ msgq' = Purge(msgq, Top.hwnd)
  /\ stack' = Pop
  /\ UNCHANGED <<std, wake, windows, slot, window_count, signal, aborted, delivered,
                 pushed, reactor, app>>

\* ---- the user's handler (class.rs run_handler), called by process
\* The handler panics: the panic unwinds through process (the borrow of the
\* queue ends) and the guard's drop into catch_panic of the window procedure
\* that started the pass, and from there, when it is not caught, into
\* abort_on_panic.  captured / caught record a payload catch_unwind caught.
HandlerPanic(payload) ==
  /\ Running /\ TopIs("handler")
  /\ Len(stack) >= 3
  /\ stack[Len(stack) - 2].kind = "wndproc"
  /\ LET h == Top.hwnd
         o == abort_on_panic(catch_panic(
                Outcome([windows[h] EXCEPT !.borrowed = FALSE],
                        payload, FALSE, FALSE)))
         creating == stack[1].kind = "create_window" /\ stack[1].hwnd = h
         below == SubSeq(stack, 1, Len(stack) - 2)
     IN /\ windows' = [windows EXCEPT ![h] = o.w]
        /\ aborted' = o.abort
        /\ app' = IF creating /\ std
                    THEN [app EXCEPT !.last.captured = payload] ELSE app
        /\ reactor' = IF stack[1].kind = "block_on" /\ std
                         THEN [reactor EXCEPT !.caught = payload] ELSE reactor
        /\ stack' = [below EXCEPT ![Len(below)] = AfterBody(@, o)]
  /\ UNCHANGED <<std, wake, slot, hwnds, window_count, msgq, signal, delivered, pushed>>

\* The handler makes a native call that sends a message to a window of this
\* thread, which runs that window's procedure before the call returns.
HandlerSend(h, msg) ==
  /\ Running /\ TopIs("handler")
  /\ Top.pc = "run"
  /\ Len(stack) < MaxStack
  /\ hwnds[h] = "window"
  /\ stack' = Append(SetPc("ran"), WndProcFrame(h, msg))
  /\ UNCHANGED <<std, wake, windows, slot, hwnds, window_count, msgq, signal, aborted,
                 delivered, pushed, reactor, app>>

\* The handler calls Client::quit.
HandlerQuit ==
  /\ Running /\ TopIs("handler")
  /\ Top.pc = "run"
  /\ msgq' = PostQuitMessage(msgq)
  /\ stack' = SetPc("ran")
  /\ UNCHANGED <<std, wake, windows, slot, hwnds, window_count, signal, aborted,
                 delivered, pushed, reactor, app>>

\* ---- window.rs Client::create_window
InCreate(pc) == Running /\ TopIs("create_window") /\ Top.pc = pc

CreateWindowCall ==
  /\ AtMain
  /\ app.calls < MaxCalls
  /\ \E h \in Hwnds : hwnds[h] = "free"
  /\ stack' = <<Frame("create_window", 0, "", "native", "", NoPanic)>>
  /\ app' = [app EXCEPT !.calls = @ + 1, !.last = [NoCall EXCEPT !.res = "running",
                                                           !.count = window_count],
                        !.released[0] = 0]
  /\ UNCHANGED <<std, wake, windows, slot, hwnds, window_count, msgq, signal, aborted,
                 delivered, pushed, reactor>>

\* CreateWindowExA fails before any message is sent: the box is freed and
\* the error returned.
NativeCreateFail ==
  /\ Running /\ TopIs("create_window")
  /\ Top.pc \in {"native", "from_name"}
  /\ stack' = Pop
  /\ app' = [app EXCEPT !.last.res = "Err", !.released[0] = @ + 1]
  /\ UNCHANGED <<std, wake, windows, slot, hwnds, window_count, msgq, signal, aborted,
                 delivered, pushed, reactor>>

\* CreateWindowExA allocates the handle (the lowest one never used).
NativeCreateHandle ==
  /\ InCreate("native")
  /\ LET h == CHOOSE x \in Hwnds :
                 hwnds[x] = "free" /\ \A y \in Hwnds : hwnds[y] = "free" => x <= y
     IN /\ hwnds' = [hwnds EXCEPT ![h] = "window"]
        /\ stack' = SetTop([Top EXCEPT !.hwnd = h, !.pc = "wm_getminmaxinfo"])
  /\ UNCHANGED <<std, wake, windows, slot, window_count, msgq, signal, aborted, delivered,
                 pushed, reactor, app>>

\* CreateWindowExA sends WM_GETMINMAXINFO, WM_NCCREATE and WM_CREATE to the
\* window procedure, in this order.
CreateNextPc(pc) ==
  CASE pc = "wm_getminmaxinfo" -> "wm_nccreate"
    [] pc = "wm_nccreate" -> "wm_create"
    [] OTHER -> "return"

CreateMsg(pc) ==
  CASE pc = "wm_getminmaxinfo" -> "WM_GETMINMAXINFO"
    [] pc = "wm_nccreate" -> "WM_NCCREATE"
    [] OTHER -> "WM_CREATE"

NativeCreateSend ==
  /\ Running /\ TopIs("create_window")
  /\ Top.pc \in {"wm_getminmaxinfo", "wm_nccreate", "wm_create"}
  /\ stack' = Append(SetPc(CreateNextPc(Top.pc)),
                     WndProcFrame(Top.hwnd, CreateMsg(Top.pc)))
  /\ UNCHANGED <<std, wake, windows, slot, hwnds, window_count, msgq, signal, aborted,
                 delivered, pushed, reactor, app>>

\* The default procedure's answer to WM_NCCREATE was FALSE: CreateWindowExA
\* destroys the window (WM_NCDESTROY) and returns a null handle.
NativeCreateAbort ==
  /\ InCreate("wm_create")
  /\ stack' = Append(SetPc("return"), DestroyFrame(Top.hwnd, "wm_ncdestroy"))
  /\ UNCHANGED <<std, wake, windows, slot, hwnds, window_count, msgq, signal, aborted,
                 delivered, pushed, reactor, app>>

\* CreateWindowExA returned.  A null handle (the window did not survive its
\* creation) is the error.  Otherwise the count is bumped and the panic of
\* the new window, if any, is propagated: resume_unwind drops the Window,
\* whose drop destroys it, and the panic goes on to the caller.
CreateWindowFailed ==
  /\ InCreate("return")
  /\ hwnds[Top.hwnd] # "window"
  /\ stack' = Pop
  /\ app' = [app EXCEPT !.last.res = "Err", !.last.hwnd = Top.hwnd,
                        !.released[Top.hwnd] = @ + 1]
  /\ UNCHANGED <<std, wake, windows, slot, hwnds, window_count, msgq, signal, aborted,
                 delivered, pushed, reactor>>

CreateWindowReturn ==
  /\ InCreate("return")
  /\ hwnds[Top.hwnd] = "window"
  /\ slot[Top.hwnd] # 0
  /\ LET h == Top.hwnd
         r == propagate_panic(windows[slot[h]])
     IN /\ window_count' = increment_window_count(window_count)
        /\ windows' = [windows EXCEPT ![slot[h]] = r.w]
        /\ IF r.raised # NoPanic
             THEN /\ stack' = Append(SetTop([Top EXCEPT !.pc = "unwind", !.n = r.raised]),
                                     DestroyFrame(h, "wm_destroy"))
                  /\ app' = [app EXCEPT !.last.hwnd = h]
             ELSE /\ stack' = Pop
                  /\ app' = [app EXCEPT !.last.res = "Ok", !.last.hwnd = h,
                                        !.owned = @ \cup {h}]
  /\ UNCHANGED <<std, wake, slot, hwnds, msgq, signal, aborted, delivered, pushed, reactor>>

\* The panic leaves create_window.
CreateWindowUnwound ==
  /\ InCreate("unwind")
  /\ stack' = Pop
  /\ app' = [app EXCEPT !.last.res = "Panic", !.last.payload = Top.n]
  /\ UNCHANGED <<std, wake, windows, slot, hwnds, window_count, msgq, signal, aborted,
                 delivered, pushed, reactor>>

\* Window::drop: DestroyWindow, which does nothing for a handle that is no
\* longer a window.
DropWindow(h) ==
  /\ AtMain
  /\ h \in app.owned
  /\ app' = [app EXCEPT !.owned = @ \ {h}]
  /\ stack' = IF hwnds[h] = "window" THEN <<DestroyFrame(h, "wm_destroy")>>
                                     ELSE stack
  /\ UNCHANGED <<std, wake, windows, slot, hwnds, window_count, msgq, signal, aborted,
                 delivered, pushed, reactor>>

\* ---- the outside: messages posted to the thread's queue
PostMessage(h, msg) ==
  /\ Running
  /\ hwnds[h] = "window"
  /\ Len(msgq) < MaxMsgs
  /\ app.posts < MaxPosts
  /\ msgq' = Append(msgq, Msg(h, msg))
  /\ app' = [app EXCEPT !.posts = @ + 1]
  /\ UNCHANGED <<std, wake, windows, slot, hwnds, window_count, signal, stack, aborted,
                 delivered, pushed, reactor>>

PostQuit ==
  /\ Running
  /\ Len(msgq) < MaxMsgs
  /\ app.posts < MaxPosts
  /\ msgq' = PostQuitMessage(msgq)
  /\ msgq' # msgq
  /\ app' = [app EXCEPT !.posts = @ + 1]
  /\ UNCHANGED <<std, wake, windows, slot, hwnds, window_count, signal, stack, aborted,
                 delivered, pushed, reactor>>

\* ---- reactor.rs Reactor::block_on and Reactor::drain_queue
InBlockOn(pc) == Running /\ TopIs("block_on") /\ Top.pc = pc
Tasks == {"ready", "never", "timer", "listener"}

\* Where the loop of block_on starts: with a poll of the future.  (The
\* faulty variant drains first.)
BlockOnStart_drain == "drain"
BlockOnStart == "poll"

\* Where drain_queue goes after DispatchMessageA: signal_new_message and
\* round its loop to PeekMessageA.  (The faulty variants leave the drain for
\* a poll or for the wait.)
AfterDispatch_poll == "poll"
AfterDispatch_wait == "wait"
AfterDispatch == "dispatched"

\* What block_on does with the status of a drain that saw WM_QUIT: return
\* Ok(None).  (The faulty variant ignores status.quit and waits.)
AfterQuit_wait == "wait"
AfterQuit == "return"

\* Where block_on goes when the wait returns 0: `break` out of the inner
\* loop, to the poll.  (The faulty variant goes round to the drain.)
AfterWake_drain == "drain"
AfterWake == "poll"

\* Where block_on goes when the wait returns 1: `continue`, to drain_queue.
AfterMessage == "drain"

\* Where block_on goes when the wait returns any other code: the match arm
\* only logs, and the inner loop goes round to drain_queue.  (The faulty
\* variant breaks out to the poll.)
AfterUnexpected_poll == "poll"
AfterUnexpected == "drain"

\* Reactor::new and block_on up to the loop: a fresh, unset event.
BlockOnCall(task) ==
  /\ AtMain
  /\ app.calls < MaxCalls
  /\ reactor' = [NoReactor EXCEPT !.task = task, !.ret = "running"]
  /\ signal' = FALSE
  /\ stack' = <<Frame("block_on", 0, "", BlockOnStart, "", NoPanic)>>
  /\ app' = [app EXCEPT !.calls = @ + 1]
  /\ UNCHANGED <<std, wake, windows, slot, hwnds, window_count, msgq, aborted, delivered,
                 pushed>>

\* future.as_mut().poll(&mut context)
BlockOnPoll ==
  /\ InBlockOn("poll")
  /\ stack' = Append(stack, Frame("future", 0, "", "poll", "", NoPanic))
  /\ reactor' = [reactor EXCEPT !.polls = IF @ < 2 THEN @ + 1 ELSE @,
                                !.lastWait = "none"]
  /\ UNCHANGED <<std, wake, windows, slot, hwnds, window_count, msgq, signal, aborted,
                 delivered, pushed, app>>

\* A faulty variant of the poll: every task is ready at once.
TaskIsReady_always == TRUE

\* Whether the poll finds the task ready: future::pending (the task of run)
\* never is.
TaskIsReady ==
  \/ reactor.task = "ready"
  \/ reactor.task = "timer" /\ reactor.fired
  \/ reactor.task = "listener" /\ reactor.listener = "notified"

\* Poll::Ready: return Ok(Some(result)).
FutureReady ==
  /\ Running /\ TopIs("future")
  /\ TaskIsReady
  /\ stack' = SubSeq(stack, 1, Len(stack) - 2)
  /\ reactor' = [reactor EXCEPT !.ret = "Some"]
  /\ UNCHANGED <<std, wake, windows, slot, hwnds, window_count, msgq, signal, aborted,
                 delivered, pushed, app>>

\* Poll::Pending: on to drain_queue.
FuturePending ==
  /\ Running /\ TopIs("future")
  /\ ~TaskIsReady
  /\ stack' = [Pop EXCEPT ![Len(stack) - 1].pc = "drain"]
  /\ reactor' = wait_for_message(reactor)
  /\ UNCHANGED <<std, wake, windows, slot, hwnds, window_count, msgq, signal, aborted,
                 delivered, pushed, app>>

\* drain_queue: PeekMessageA finds nothing; status.quit is false and
\* block_on goes on to MsgWaitForMultipleObjectsEx.
DrainPeekEmpty ==
  /\ InBlockOn("drain")
  /\ msgq = <<>>
  /\ reactor' = [reactor EXCEPT !.lastPeek = "empty", !.lastWait = "none"]
  /\ stack' = SetPc("wait")
  /\ UNCHANGED <<std, wake, windows, slot, hwnds, window_count, msgq, signal, aborted,
                 delivered, pushed, app>>

\* A faulty variant: the drain that sees WM_QUIT empties the queue.
DrainPeekQuit_flush ==
  /\ InBlockOn("drain")
  /\ msgq # <<>> /\ Head(msgq) = WM_QUIT
  /\ msgq' = <<>>
  /\ reactor' = [reactor EXCEPT !.lastPeek = "quit", !.drained = TRUE,
                                !.lastWait = "none", !.ret = "None"]
  /\ stack' = Pop
  /\ UNCHANGED <<std, wake, windows, slot, hwnds, window_count, signal, aborted,
                 delivered, pushed, app>>

\* drain_queue: PeekMessageA removes WM_QUIT; block_on returns Ok(None).
DrainPeekQuit ==
  /\ InBlockOn("drain")
  /\ msgq # <<>> /\ Head(msgq) = WM_QUIT
  /\ msgq' = Tail(msgq)
  /\ reactor' = [reactor EXCEPT !.lastPeek = "quit", !.drained = TRUE,
                                !.lastWait = "none",
                                !.ret = IF AfterQuit = "return" THEN "None" ELSE @]
  /\ stack' = IF AfterQuit = "return" THEN Pop ELSE SetPc(AfterQuit)
  /\ UNCHANGED <<std, wake, windows, slot, hwnds, window_count, signal, aborted,
                 delivered, pushed, app>>

\* drain_queue: PeekMessageA removes a message and DispatchMessageA calls the
\* window procedure of its window.
DrainDispatch ==
  /\ InBlockOn("drain")
  /\ msgq # <<>> /\ Head(msgq) # WM_QUIT
  /\ msgq' = Tail(msgq)
  /\ reactor' = [reactor EXCEPT !.lastPeek = "message", !.drained = TRUE,
                                !.lastWait = "none"]
  /\ stack' = Append(SetPc(AfterDispatch),
                     WndProcFrame(Head(msgq).hwnd, Head(msgq).message))
  /\ UNCHANGED <<std, wake, windows, slot, hwnds, window_count, signal, aborted,
                 delivered, pushed, app>>

\* drain_queue: signal_new_message(), and round the loop.  A listener that
\* is notified wakes the task: the waker sets the reactor's event.
DrainDispatched ==
  /\ InBlockOn("dispatched")
  /\ stack' = SetPc("drain")
  /\ reactor' = signal_new_message(reactor)
  /\ signal' = (signal \/ reactor'.listener # reactor.listener)
  /\ UNCHANGED <<std, wake, windows, slot, hwnds, window_count, msgq, aborted,
                 delivered, pushed, app>>

\* MsgWaitForMultipleObjectsEx returns 0: the event was set (and is reset).
WaitSignal ==
  /\ InBlockOn("wait")
  /\ signal
  /\ signal' = FALSE
  /\ reactor' = [reactor EXCEPT !.lastWait = "signal"]
  /\ stack' = SetPc(AfterWake)
  /\ UNCHANGED <<std, wake, windows, slot, hwnds, window_count, msgq, aborted, delivered,
                 pushed, app>>

\* A faulty variant of the wait: new input wins over the event and the
\* event is reset all the same.
WaitMessage_reset ==
  /\ InBlockOn("wait")
  /\ msgq # <<>>
  /\ signal' = FALSE
  /\ reactor' = [reactor EXCEPT !.lastWait = "message"]
  /\ stack' = SetPc(AfterMessage)
  /\ UNCHANGED <<std, wake, windows, slot, hwnds, window_count, msgq, aborted,
                 delivered, pushed, app>>

\* MsgWaitForMultipleObjectsEx returns 1: new input in the queue.
WaitMessage ==
  /\ InBlockOn("wait")
  /\ ~signal /\ msgq # <<>>
  /\ reactor' = [reactor EXCEPT !.lastWait = "message"]
  /\ stack' = SetPc(AfterMessage)
  /\ UNCHANGED <<std, wake, windows, slot, hwnds, window_count, msgq, signal, aborted,
                 delivered, pushed, app>>

\* MsgWaitForMultipleObjectsEx returns WAIT_FAILED.
WaitFailed ==
  /\ InBlockOn("wait")
  /\ reactor' = [reactor EXCEPT !.ret = "Err", !.lastWait = "failed"]
  /\ stack' = Pop
  /\ UNCHANGED <<std, wake, windows, slot, hwnds, window_count, msgq, signal, aborted,
                 delivered, pushed, app>>

\* MsgWaitForMultipleObjectsEx returns anything else: a warning, and the
\* inner loop goes round to drain_queue.
WaitOther ==
  /\ InBlockOn("wait")
  /\ reactor' = [reactor EXCEPT !.lastWait = "other"]
  /\ stack' = SetPc(AfterUnexpected)
  /\ UNCHANGED <<std, wake, windows, slot, hwnds, window_count, msgq, signal, aborted,
                 delivered, pushed, app>>

\* Another thread completes the timer the task waits for and calls the waker
\* (Wake for Event: SetEvent).
TimerFire ==
  /\ Running
  /\ reactor.ret = "running" /\ reactor.task = "timer"
  /\ reactor.polls >= 1 /\ ~reactor.fired
  /\ reactor' = [reactor EXCEPT !.fired = TRUE]
  /\ signal' = TRUE
  /\ UNCHANGED <<std, wake, windows, slot, hwnds, window_count, msgq, stack, aborted,
                 delivered, pushed, app>>

\* ---------------------------------------------------------- specification
Next ==
  \/ CreateWindowCall
  \/ NativeCreateFail
  \/ NativeCreateHandle
  \/ NativeCreateSend
  \/ NativeCreateAbort
  \/ CreateWindowFailed
  \/ CreateWindowReturn
  \/ CreateWindowUnwound
  \/ \E h \in Hwnds : DropWindow(h)
  \/ \E h \in Hwnds, msg \in SentMessages : PostMessage(h, msg)
  \/ PostQuit
  \/ WndProcNcCreate
  \/ WndProcNcDestroy
  \/ WndProcEarly
  \/ WndProcScope
  \/ WndProcDefault
  \/ WndProcDefaultClose
  \/ DestroySend
  \/ DestroyDone
  \/ ProcessPop
  \/ ProcessDone
  \/ HandlerReturn
  \/ \E payload \in UserPayloads : HandlerPanic(payload)
  \/ \E h \in Hwnds, msg \in SentMessages : HandlerSend(h, msg)
  \/ HandlerQuit
  \/ \E task \in Tasks : BlockOnCall(task)
  \/ BlockOnPoll
  \/ FutureReady
  \/ FuturePending
  \/ DrainPeekEmpty
  \/ DrainPeekQuit
  \/ DrainDispatch
  \/ DrainDispatched
  \/ WaitSignal
  \/ WaitMessage
  \/ WaitFailed
  \/ WaitOther
  \/ TimerFire

Spec == Init /\ [][Next]_vars

\* ------------------------------- the window procedure called out of order
\* The native side calls the window procedure where the usual order of
\* messages has no call: with a null handle or a handle that is not a
\* window (a late callback), and for a window that has not had its
\* WM_NCCREATE yet.  It does so from inside CreateWindowExA, a native call
\* of this thread that delivers messages.  The application creates and
\* drops windows, and the handlers do what they do; no reactor runs.
AllMessages ==
  SentMessages \cup {"WM_GETMINMAXINFO", "WM_NCCREATE", "WM_DESTROY", "WM_NCDESTROY"}

InNativeCall ==
  /\ Running /\ TopIs("create_window")
  /\ Top.pc \in {"wm_getminmaxinfo", "wm_nccreate", "wm_create"}

StrayCall(h, msg) ==
  /\ InNativeCall
  /\ app.stray < MaxStray
  /\ IF h = 0 THEN TRUE ELSE hwnds[h] # "window"
  /\ stack' = Append(stack, WndProcFrame(h, msg))
  /\ app' = [app EXCEPT !.stray = @ + 1]
  /\ UNCHANGED <<std, wake, windows, slot, hwnds, window_count, msgq, signal, aborted,
                 delivered, pushed, reactor>>

StrayMessage(msg) ==
  /\ Running /\ TopIs("create_window")
  /\ Top.pc \in {"wm_getminmaxinfo", "wm_nccreate"}
  /\ app.stray < MaxStray
  /\ stack' = Append(stack, WndProcFrame(Top.hwnd, msg))
  /\ app' = [app EXCEPT !.stray = @ + 1]
  /\ UNCHANGED <<std, wake, windows, slot, hwnds, window_count, msgq, signal, aborted,
                 delivered, pushed, reactor>>

NextStray ==
  \/ CreateWindowCall
  \/ NativeCreateFail
  \/ NativeCreateHandle
  \/ NativeCreateSend
  \/ NativeCreateAbort
  \/ CreateWindowFailed
  \/ CreateWindowReturn
  \/ CreateWindowUnwound
  \/ \E h \in Hwnds : DropWindow(h)
  \/ WndProcNcCreate
  \/ WndProcNcDestroy
  \/ WndProcEarly
  \/ WndProcScope
  \/ WndProcDefault
  \/ WndProcDefaultClose
  \/ DestroySend
  \/ DestroyDone
  \/ ProcessPop
  \/ ProcessDone
  \/ HandlerReturn
  \/ \E payload \in UserPayloads : HandlerPanic(payload)
  \/ \E h \in Hwnds, msg \in SentMessages : HandlerSend(h, msg)
  \/ HandlerQuit
  \/ WndProcReject
  \/ WndProcNoData
  \/ \E h \in {0} \cup Hwnds, msg \in AllMessages : StrayCall(h, msg)
  \/ \E msg \in {"WM_OTHER", "WM_CREATE"} : StrayMessage(msg)

SpecStray == Init /\ [][NextStray]_vars

\* The handler destroys a window of this thread: it drops a Window it owns
\* (Drop for Window) or calls DestroyWindow with the raw handle.  WM_DESTROY
\* and WM_NCDESTROY are sent to the window procedure before the call returns.
HandlerDestroy(h) ==
  /\ Running /\ TopIs("handler")
  /\ Top.pc = "run"
  /\ Len(stack) < MaxStack
  /\ hwnds[h] = "window" /\ ~InDestroy(h)
  /\ stack' = Append(SetPc("ran"), DestroyFrame(h, "wm_destroy"))
  /\ UNCHANGED <<std, wake, windows, slot, hwnds, window_count, msgq, signal, aborted,
                 delivered, pushed, reactor, app>>

\* WindowData::process goes on with `self` freed: the read of the freed
\* queue may end the process here (ProcessPop and ProcessDone are the reads
\* that find an empty queue).
ProcessFreed ==
  /\ Running /\ TopIs("process")
  /\ ~windows[Top.hwnd].live
  /\ aborted' = TRUE
  /\ UNCHANGED <<std, wake, windows, slot, hwnds, window_count, msgq, signal, stack,
                 delivered, pushed, reactor, app>>

NextDestroy ==
  \/ CreateWindowCall
  \/ NativeCreateFail
  \/ NativeCreateHandle
  \/ NativeCreateSend
  \/ NativeCreateAbort
  \/ CreateWindowFailed
  \/ CreateWindowReturn
  \/ CreateWindowUnwound
  \/ \E h \in Hwnds : DropWindow(h)
  \/ WndProcNcCreate
  \/ WndProcNcDestroy
  \/ WndProcEarly
  \/ WndProcScope
  \/ WndProcDefault
  \/ WndProcDefaultClose
  \/ DestroySend
  \/ DestroyDone
  \/ ProcessPop
  \/ ProcessDone
  \/ ProcessFreed
  \/ HandlerReturn
  \/ \E payload \in UserPayloads : HandlerPanic(payload)
  \/ \E h \in Hwnds, msg \in SentMessages : HandlerSend(h, msg)
  \/ \E h \in Hwnds : HandlerDestroy(h)
  \/ HandlerQuit

SpecDestroy == Init /\ [][NextDestroy]_vars

\* ---- class.rs WindowClass::from_name and window.rs create_window
\* A WindowClass made by from_name names a class registered elsewhere (a
\* system class, another library's): create_window takes it like any other,
\* with T = ().  The class's own procedure gets WM_NCCREATE and the rest, so
\* no WindowData is built and GWLP_USERDATA is not set by wndproc.rs.
CreateWindowFromName ==
  /\ AtMain
  /\ app.calls < MaxCalls
  /\ \E h \in Hwnds : hwnds[h] = "free"
  /\ stack' = <<Frame("create_window", 0, "", "from_name", "", NoPanic)>>
  /\ app' = [app EXCEPT !.calls = @ + 1, !.last = [NoCall EXCEPT !.res = "running",
                                                           !.count = window_count],
                        !.released[0] = 0]
  /\ UNCHANGED <<std, wake, windows, slot, hwnds, window_count, msgq, signal, aborted,
                 delivered, pushed, reactor>>

\* CreateWindowExA succeeds: the creation messages went to the class's own
\* procedure and the handle comes back non-null.
NativeCreateFromName ==
  /\ InCreate("from_name")
  /\ LET h == CHOOSE x \in Hwnds :
                 hwnds[x] = "free" /\ \A y \in Hwnds : hwnds[y] = "free" => x <= y
     IN /\ hwnds' = [hwnds EXCEPT ![h] = "foreign"]
        /\ stack' = SetTop([Top EXCEPT !.hwnd = h, !.pc = "propagate"])
  /\ UNCHANGED <<std, wake, windows, slot, window_count, msgq, signal, aborted, delivered,
                 pushed, reactor, app>>

\* The count is bumped and BorrowedWindow::propagate_panic reads
\* GWLP_USERDATA, takes it for a pointer to a WindowData and calls the
\* function pointer found at its start.  The slot is null here: the read
\* through the null pointer may end the process, or the call may run on and
\* create_window return the Window.
CreateWindowNoData ==
  /\ InCreate("propagate")
  /\ slot[Top.hwnd] = 0
  /\ window_count' = increment_window_count(window_count)
  /\ \E outcome \in NullDataOutcomes :
        /\ aborted' = (outcome = "abort")
        /\ stack' = IF outcome = "abort" THEN stack ELSE Pop
        /\ app' = IF outcome = "abort"
                    THEN [app EXCEPT !.last.hwnd = Top.hwnd]
                    ELSE [app EXCEPT !.last.res = "Ok", !.last.hwnd = Top.hwnd,
                                     !.owned = @ \cup {Top.hwnd}]
  /\ UNCHANGED <<std, wake, windows, slot, hwnds, msgq, signal, delivered, pushed,
                 reactor>>

\* An application that makes windows of its own classes and of named ones,
\* and keeps them; the handlers do what they do, and no reactor runs.
NextClass ==
  \/ CreateWindowCall
  \/ CreateWindowFromName
  \/ NativeCreateFail
  \/ NativeCreateHandle
  \/ NativeCreateFromName
  \/ NativeCreateSend
  \/ NativeCreateAbort
  \/ CreateWindowFailed
  \/ CreateWindowReturn
  \/ CreateWindowNoData
  \/ CreateWindowUnwound
  \/ WndProcNcCreate
  \/ WndProcNcDestroy
  \/ WndProcEarly
  \/ WndProcScope
  \/ WndProcDefault
  \/ WndProcDefaultClose
  \/ DestroySend
  \/ DestroyDone
  \/ ProcessPop
  \/ ProcessDone
  \/ HandlerReturn
  \/ \E payload \in UserPayloads : HandlerPanic(payload)
  \/ \E h \in Hwnds, msg \in SentMessages : HandlerSend(h, msg)
  \/ HandlerQuit

SpecClass == Init /\ [][NextClass]_vars

\* The steps the thread takes by itself once it is where they apply: the
\* native calls return, the window procedure and the reactor run on, and the
\* user's handler returns.  What the outside decides (messages posted, the
\* timer, the application's next call, an unexplained or failed wait, what
\* the handler does before it returns) is not among them.
ThreadStep ==
  \/ NativeCreateFail
  \/ NativeCreateHandle
  \/ NativeCreateSend
  \/ CreateWindowFailed
  \/ CreateWindowReturn
  \/ CreateWindowUnwound
  \/ WndProcNcCreate
  \/ WndProcNcDestroy
  \/ WndProcEarly
  \/ WndProcScope
  \/ WndProcDefault
  \/ WndProcDefaultClose
  \/ DestroySend
  \/ DestroyDone
  \/ ProcessPop
  \/ ProcessDone
  \/ HandlerReturn
  \/ BlockOnPoll
  \/ FutureReady
  \/ FuturePending
  \/ DrainPeekEmpty
  \/ DrainPeekQuit
  \/ DrainDispatch
  \/ DrainDispatched
  \/ WaitSignal
  \/ WaitMessage

\* The same program run to completion: the thread is never stopped while
\* one of its own steps is possible.
SpecLive == Init /\ [][Next]_vars /\ WF_vars(ThreadStep)

\* In addition, a wait that is called again and again with the event set
\* does not return an unexplained code for ever: the wait on a signalled
\* event returns 0.
SpecWake == Init /\ [][Next]_vars /\ WF_vars(ThreadStep) /\ SF_vars(WaitSignal)

\* ------------------------------------------------------------ properties
IsPrefix(a, b) == Len(a) <= Len(b) /\ SubSeq(b, 1, Len(a)) = a
Evs(ps) == [i \in 1 .. Len(ps) |-> ps[i].ev]
Dispatching(h) ==
  \E i \in 1 .. Len(stack) :
     stack[i].hwnd = h /\ stack[i].kind \in {"process", "handler"}

\* C1: while dispatch scopes of a window are nested (count >= 1) no dispatch
\* pass and no handler invocation of that window is on the stack; a step that
\* releases an inner guard hands nothing to the handler and starts nothing;
\* the handler gets one event per step, always the next one in push order,
\* and when the pass started by the outermost release ends every pushed
\* event has been handed over, in the order of the pushes.
C1_NestedScopesDeferFifo ==
  /\ [](\A h \in Hwnds :
          /\ IsPrefix(delivered[h], Evs(pushed[h]))
          /\ windows[h].rentrancy_count >= 1 => ~Dispatching(h))
  /\ [][\A h \in Hwnds :
          /\ delivered'[h] # delivered[h] =>
               /\ windows[h].rentrancy_count = 0
               /\ windows'[h].rentrancy_count = 0
               /\ Len(delivered'[h]) = Len(delivered[h]) + 1
          /\ (windows[h].rentrancy_count > 1
                /\ windows'[h].rentrancy_count = windows[h].rentrancy_count - 1)
               => delivered' = delivered /\ stack' = stack
          /\ (TopIs("process") /\ Top.hwnd = h /\ stack' = <<>>)
               => delivered[h] = Evs(pushed[h])]_vars

\* Two different events pushed under two nested scopes have both reached the
\* handler and the pass is over.
C1_Witness ==
  \E h \in Hwnds :
     /\ stack = <<>>
     /\ windows[h].rentrancy_count = 0
     /\ Len(delivered[h]) >= 2
     /\ delivered[h] = Evs(pushed[h])
     /\ delivered[h][1] # delivered[h][2]
     /\ \A i \in 1 .. Len(pushed[h]) : pushed[h][i].depth >= 2

QuitQueued == \E i \in 1 .. Len(msgq) : msgq[i] = WM_QUIT
InCall(kind) == Len(stack) >= 1 /\ stack[1].kind = kind
LifecycleMsgs == {"WM_NCCREATE", "WM_NCDESTROY"}
FramesOf(h, kind) ==
  {i \in 1 .. Len(stack) : stack[i].hwnd = h /\ stack[i].kind = kind}

\* The window procedure is entered for a message of window h that goes
\* through catch_panic, while the handler of h is running.
Reentered(h) ==
  /\ InWndProc("entry") /\ Top.hwnd = h
  /\ Top.msg \notin LifecycleMsgs
  /\ slot[h] # 0
  /\ FramesOf(h, "handler") # {}

\* C2: a window procedure call that re-enters window W while W's handler is
\* running completes without failure (no abort, nothing put in the panic
\* slot) and an event it queues (WM_CREATE) is appended for later; the
\* handler is not invoked again meanwhile and one dispatch pass runs for W.
C2_ReentrantCallbackCompletes ==
  /\ [](\A h \in Hwnds :
          /\ Cardinality(FramesOf(h, "process")) <= 1
          /\ Cardinality(FramesOf(h, "handler")) <= 1)
  /\ [][\A h \in Hwnds :
          (Reentered(h) /\ WndProcScope) =>
            /\ ~aborted'
            /\ windows'[h].panic = windows[h].panic
            /\ Top.msg = "WM_CREATE" =>
                 windows'[h].message_queue =
                   Append(windows[h].message_queue, "Created")]_vars

\* C3: wherever the window procedure calls push (WM_CREATE of a window whose
\* slot is set), the event is appended at the tail of the queue and nothing
\* fails, also while a dispatch pass of that window is in progress.
C3_PushAlwaysAppends ==
  [][\A h \in Hwnds :
       (/\ InWndProc("entry") /\ Top.hwnd = h /\ Top.msg = "WM_CREATE"
        /\ hwnds[h] = "window" /\ slot[h] # 0
        /\ WndProcScope)
       => /\ ~aborted'
          /\ windows'[h].panic = windows[h].panic
          /\ pushed'[h] = Append(pushed[h],
               [ev |-> "Created", depth |-> windows[h].rentrancy_count + 1])]_vars

\* C4: block_on removes no native message before the first poll of the task,
\* and when that first poll is Ready it returns Ok(Some) having removed none.
C4_ReadyTaskDrainsNothing ==
  /\ reactor.polls = 0 => ~reactor.drained
  /\ (reactor.ret = "Some" /\ reactor.polls = 1) => ~reactor.drained

\* block_on has returned Ok(Some) at its first poll with a quit notification
\* and another message still in the native queue.
C4_Witness ==
  /\ reactor.ret = "Some" /\ reactor.polls = 1
  /\ QuitQueued /\ Len(msgq) >= 2


\* C5: once a quit notification is in the native queue while block_on runs a
\* task that never completes, or runs any task and is draining, block_on
\* returns Ok(None); the only other ways out are the fatal ones: the native
\* wait fails (Err) or the process aborts.
C5_QuitEndsBlockOn ==
  (/\ reactor.ret = "running"
   /\ QuitQueued
   /\ \/ reactor.task = "never"
      \/ InCall("block_on") /\ stack[1].pc \in {"drain", "dispatched"})
    ~> (reactor.ret \in {"None", "Err"} \/ aborted)

\* block_on on the task that never completes has returned Ok(None) after
\* dispatching messages that were queued ahead of the quit notification.
C5_Witness ==
  /\ reactor.task = "never" /\ reactor.ret = "None"
  /\ reactor.polls = 1
  /\ \E h \in Hwnds : Len(delivered[h]) >= 2

LiveWindows == {h \in Hwnds : windows[h].live}

\* C6: when the window procedure handles WM_NCDESTROY of the only window
\* that has a WindowData, the window count becomes None (window_count() is
\* 0), a quit notification is posted and the process goes on.
C6_LastWindowQuits ==
  [][(/\ InWndProc("entry") /\ Top.msg = "WM_NCDESTROY"
      /\ LiveWindows = {Top.hwnd}
      /\ WndProcNcDestroy)
     => /\ window_count' = 0
        /\ QuitQueued'
        /\ ~aborted']_vars

\* C7: the task is polled only by block_on, as the innermost call, and never
\* in the middle of a drain (after a message was peeked and before the drain
\* has seen the queue empty).
C7_PollAndDrainAlternate ==
  \A i \in 1 .. Len(stack) :
     stack[i].kind = "future" =>
       /\ i = 2 /\ Len(stack) = 2
       /\ stack[1].kind = "block_on" /\ stack[1].pc = "poll"
       /\ reactor.lastPeek # "message"

\* The task is being polled again after a drain that dispatched messages.
C7_Witness ==
  /\ TopIs("future")
  /\ reactor.polls = 2 /\ reactor.drained
  /\ \E h \in Hwnds : delivered[h] # <<>>

\* C8: whenever block_on is at its wait, the last PeekMessageA of the drain
\* before it found the queue empty: no message it has seen is undispatched
\* and no quit was seen.
C8_WaitsOnlyAfterEmptyDrain ==
  (InCall("block_on") /\ stack[1].pc = "wait") => reactor.lastPeek = "empty"

\* block_on is at its wait after a drain that dispatched messages.
C8_Witness ==
  /\ InBlockOn("wait")
  /\ reactor.drained
  /\ \E h \in Hwnds : delivered[h] # <<>>

\* C9: (std) a panic of the handler on an event of the new window, raised
\* during CreateWindowExA, is captured without ending the process; once
\* create_window is over it has re-raised that payload (it has not returned
\* Ok or Err), and the handler of every window keeps getting that window's
\* events in push order.
C9_CreationPanicReraised ==
  /\ (app.last.captured # NoPanic /\ InCall("create_window")) => ~aborted
  /\ (app.last.captured # NoPanic /\ app.last.res \in {"Ok", "Err", "Panic"})
       => (app.last.res = "Panic" /\ app.last.payload = app.last.captured)
  /\ \A h \in Hwnds : IsPrefix(delivered[h], Evs(pushed[h]))

\* create_window has re-raised the handler's payload: the new window is gone,
\* its WindowData freed, and the count is back to None with a quit posted.
C9_Witness ==
  /\ app.last.res = "Panic" /\ app.last.payload = 2
  /\ app.last.captured = 2
  /\ hwnds[app.last.hwnd] = "gone"
  /\ ~windows[app.last.hwnd].live

\* C10: a handler panic captured while block_on drains reaches the caller of
\* block_on: block_on does not return Ok with the panic unreported.
C10_DrainPanicReachesCaller ==
  reactor.ret \in {"Some", "None"} => reactor.caught = NoPanic

\* C11: no invocation of the window procedure ever leaves by unwinding into
\* its native caller: whatever panics inside it (the handler, push, the
\* guard's drop, the decrement of the window count), with or without std,
\* has been captured into the panic slot or has aborted the process.
C11_NoUnwindIntoNative ==
  \A i \in 1 .. Len(stack) :
     stack[i].kind = "wndproc" => stack[i].pc # "unwind"

\* In the build without std the handler has panicked on Created and the
\* panic has ended the process at the guard of the window procedure.
C11_Witness ==
  /\ ~std /\ aborted
  /\ TopIs("wndproc") /\ Top.pc = "default" /\ Top.msg = "WM_CREATE"
  /\ delivered[Top.hwnd] # <<>>
  /\ windows[Top.hwnd].panic = NoPanic

\* C12: the panic slot of a window holds one payload at most.  A step that
\* captures a panic for a window whose slot is full aborts the process; the
\* only other step that changes a full slot of a WindowData that stays
\* allocated is the propagate step of create_window, which empties the slot
\* and re-raises exactly the payload that was in it; and the propagate step
\* never leaves a payload behind.
C12_PanicSlotHoldsOne ==
  [][/\ \A h \in Hwnds :
          (/\ windows[h].live /\ windows'[h].live
           /\ windows[h].panic # NoPanic
           /\ windows'[h].panic # windows[h].panic)
          => \/ aborted' /\ windows'[h].panic # NoPanic
             \/ /\ CreateWindowReturn /\ slot[Top.hwnd] = h
                /\ windows'[h].panic = NoPanic
                /\ stack'[Len(stack)].pc = "unwind"
                /\ stack'[Len(stack)].n = windows[h].panic
     /\ (CreateWindowReturn /\ std)
          => /\ windows'[slot[Top.hwnd]].panic = NoPanic
             /\ windows[slot[Top.hwnd]].panic # NoPanic
                  => /\ stack'[Len(stack)].pc = "unwind"
                     /\ stack'[Len(stack)].n = windows[slot[Top.hwnd]].panic]_vars

\* The handler of the window being created has panicked while the slot of
\* that window already held a payload: the process is aborted.
C12_Witness ==
  /\ aborted /\ InCall("create_window")
  /\ app.last.captured # NoPanic
  /\ windows[stack[1].hwnd].live
  /\ windows[stack[1].hwnd].panic = app.last.captured


\* C13: a freshly created Event is not set; after set has been called one or
\* more times on it with no wait in between, the next wait on it succeeds
\* and resets it, and a wait with no set before it does not succeed.
C13_SetsCoalesce ==
  /\ [](wake.waits = <<>> /\ wake.sets = 0
          => \A o \in Handles : ~wake.signaled[o])
  /\ [][\A h \in Handles :
          (EventWait(h) /\ wake.setters \subseteq {h})
          => /\ wake'.waits[Len(wake'.waits)].woke = (wake.sets >= 1)
             /\ ~wake'.signaled[wake.handles[h].obj]]_vars

\* Two sets on the original, a wait on it that succeeded, and then a wait
\* on it that did not.
C13_Witness ==
  /\ Len(wake.waits) = 2
  /\ wake.waits[1] = [h |-> 1, woke |-> TRUE, sets |-> 2, other |-> FALSE,
                      dropped |-> FALSE]
  /\ wake.waits[2] = [h |-> 1, woke |-> FALSE, sets |-> 0, other |-> FALSE,
                      dropped |-> FALSE]


\* C14: dropping an Event closes its own handle and nothing else: a handle
\* is closed only by its own drop, the drop leaves the other handles and the
\* event object as they were, and after clones were dropped a wait on the
\* original succeeds exactly when a set came before it.
C14_DropClosesOnlyItsHandle ==
  /\ [](\A h \in Handles :
          wake.handles[h].state = "closed" <=> h \in wake.dropped)
  /\ [][\A h \in Handles :
          EventDrop(h)
          => /\ \A g \in Handles \ {h} : wake'.handles[g] = wake.handles[g]
             /\ wake'.signaled = wake.signaled]_vars
  /\ [][(EventWait(1) /\ wake.dropped # {})
          => wake'.waits[Len(wake'.waits)].woke = (wake.sets >= 1)]_vars

\* A clone was made and dropped; then a set on the original was seen by a
\* wait on the original, and the wait after that did not succeed.
C14_Witness ==
  /\ wake.handles[2].state = "closed"
  /\ wake.handles[1].state = "open"
  /\ Len(wake.waits) = 2
  /\ wake.waits[1] = [h |-> 1, woke |-> TRUE, sets |-> 1, other |-> FALSE,
                      dropped |-> TRUE]
  /\ wake.waits[2] = [h |-> 1, woke |-> FALSE, sets |-> 0, other |-> FALSE,
                      dropped |-> TRUE]

\* C15: every handle made by try_clone is on the event object of the
\* original: a wait on any handle succeeds exactly when a set was made on
\* any handle since the last wait, and no handle sees the event set after it.
C15_CloneSharesState ==
  /\ [](\A h \in Handles : IsOpen(h) => wake.handles[h].obj = 1)
  /\ [][\A h \in Handles :
          EventWait(h)
          => /\ wake'.waits[Len(wake'.waits)].woke = (wake.sets >= 1)
             /\ \A g \in Handles :
                  IsOpen(g) => ~wake'.signaled[wake.handles[g].obj]]_vars

\* A set on the original and a set on a clone, then one wait on the original
\* that succeeded and one that did not.
C15_Witness ==
  /\ Len(wake.waits) = 2
  /\ wake.waits[1].h = 1 /\ wake.waits[1].woke
  /\ wake.waits[1].sets = 2 /\ wake.waits[1].other
  /\ wake.waits[2].h = 1 /\ ~wake.waits[2].woke
  /\ wake.waits[2].sets = 0


\* A step of the drain: a PeekMessageA of drain_queue.
DrainPeek == DrainPeekEmpty \/ DrainPeekQuit \/ DrainDispatch

\* C16 as the specification states it: after a wait that returned an
\* unexpected code, the next thing block_on does is poll the task.
C16_UnexpectedWaitPolls ==
  reactor.lastWait = "other" => Top.pc = "poll"

\* C16 as the code has it: after a wait that returned an unexpected code,
\* block_on is at drain_queue, and the next thing it does is a PeekMessageA
\* of the drain, not a poll of the task.
C16_UnexpectedWaitDrains ==
  /\ [](reactor.lastWait = "other" => InBlockOn("drain"))
  /\ [][(reactor.lastWait = "other" /\ reactor'.lastWait # "other")
          => DrainPeek]_vars

C16_Witness ==
  /\ reactor.lastWait = "other" /\ InBlockOn("drain")
  /\ reactor.task = "timer" /\ reactor.fired /\ reactor.polls = 1

\* C17: after the wait returned because the event was set, block_on is at
\* the poll and its next step is the poll of the task; after it returned
\* because of a new message, block_on is at drain_queue and its next step
\* is a PeekMessageA of the drain.
C17_WakePollsMessageDrains ==
  /\ [](reactor.lastWait = "signal" => InBlockOn("poll"))
  /\ [](reactor.lastWait = "message" => InBlockOn("drain"))
  /\ [][(reactor.lastWait = "signal" /\ reactor'.lastWait # "signal")
          => BlockOnPoll]_vars
  /\ [][(reactor.lastWait = "message" /\ reactor'.lastWait # "message")
          => DrainPeek]_vars

\* The wait returned because the event was set, after the drain of this
\* call had dispatched a message.
C17_Witness ==
  /\ reactor.lastWait = "signal" /\ InBlockOn("poll")
  /\ reactor.fired /\ reactor.drained /\ reactor.polls = 1


\* C18: Reactor::run, block_on with a task that is never ready, does not
\* return a result of the task; it returns Ok only when its drain took
\* WM_QUIT off the queue and Err only when the wait failed, and it leaves
\* its loop by one of these two steps only.
C18_RunReturnsOnlyOnQuit ==
  /\ [](reactor.task = "never"
          => /\ reactor.ret \in {"running", "None", "Err"}
             /\ reactor.ret = "None" => reactor.lastPeek = "quit"
             /\ reactor.ret = "Err" => reactor.lastWait = "failed")
  /\ [][(reactor.task = "never" /\ reactor.ret = "running"
           /\ reactor'.ret # "running")
          => DrainPeekQuit \/ WaitFailed]_vars

\* run returned Ok(()) on WM_QUIT after its drain had dispatched a message
\* to a window.
C18_Witness ==
  /\ reactor.task = "never" /\ reactor.ret = "None"
  /\ reactor.lastPeek = "quit" /\ reactor.polls = 1
  /\ \E h \in Hwnds : delivered[h] # <<>>
  /\ stack = <<>>


\* C19: in every state, GWLP_USERDATA of every window handle is either null
\* or the pointer to a WindowData that is allocated (made at that handle's
\* WM_NCCREATE and not yet dropped), and no two handles hold the same one.
C19_SlotEmptyOrLive ==
  /\ \A h \in Hwnds :
        slot[h] # 0 => /\ slot[h] = h
                       /\ windows[slot[h]].live
                       /\ hwnds[h] = "window"
  /\ \A h, g \in Hwnds : (h # g /\ slot[h] # 0) => slot[h] # slot[g]

\* One window has been destroyed, its slot cleared and its WindowData
\* dropped, while another still has its WindowData in its slot.
C19_Witness ==
  \E h, g \in Hwnds :
    /\ slot[h] = h /\ windows[h].live
    /\ hwnds[g] = "gone" /\ slot[g] = 0 /\ ~windows[g].live
    /\ delivered[g] # <<>>


\* C20: when the window procedure handles WM_NCDESTROY of a window that has
\* its WindowData, the slot is cleared, the WindowData is dropped with the
\* events still in its queue, and the window count goes down by exactly one
\* without the process ending; and the handler is never called again for a
\* window whose WindowData is gone.
C20_PostDestroyFinalizes ==
  /\ [][(/\ InWndProc("entry") /\ Top.msg = "WM_NCDESTROY"
          /\ slot[Top.hwnd] # 0
          /\ WndProcNcDestroy)
         => /\ slot'[Top.hwnd] = 0
            /\ ~windows'[Top.hwnd].live
            /\ windows'[Top.hwnd].message_queue = <<>>
            /\ delivered'[Top.hwnd] = delivered[Top.hwnd]
            /\ window_count' = window_count - 1
            /\ ~aborted']_vars
  /\ [][\A h \in Hwnds :
          ~windows[h].live => delivered'[h] = delivered[h]]_vars


C21_MissingDataAborts ==
  [][(/\ InWndProc("entry")
      /\ Top.hwnd # 0 /\ hwnds[Top.hwnd] = "window" /\ slot[Top.hwnd] = 0
      /\ Top.msg \notin {"WM_NCCREATE", "WM_NCDESTROY", "WM_GETMINMAXINFO"}
      /\ WndProcNoData)
     => aborted']_vars

\* C22: when WM_GETMINMAXINFO arrives for a window whose GWLP_USERDATA is
\* null, the one step of the window procedure goes to the default procedure:
\* no WindowData is made, nothing is queued, and the process does not end.
C22_EarlySizeQueryForwards ==
  [][(/\ InWndProc("entry")
      /\ Top.hwnd # 0 /\ hwnds[Top.hwnd] = "window" /\ slot[Top.hwnd] = 0
      /\ Top.msg = "WM_GETMINMAXINFO"
      /\ stack' # stack \/ aborted')
     => /\ stack' = SetPc("default")
        /\ ~aborted'
        /\ UNCHANGED <<windows, slot, hwnds, window_count, msgq, delivered,
                       pushed>>]_vars

\* WM_GETMINMAXINFO of a window being created has gone to the default
\* procedure before WM_NCCREATE.
C22_Witness ==
  /\ InWndProc("default") /\ Top.msg = "WM_GETMINMAXINFO"
  /\ Top.hwnd # 0 /\ hwnds[Top.hwnd] = "window" /\ slot[Top.hwnd] = 0
  /\ ~windows[Top.hwnd].live
  /\ Top.ev = ""


\* C24: WM_NCCREATE installs the WindowData with an empty queue and calls no
\* handler; every WM_CREATE the window procedure handles for a window with
\* its WindowData pushes exactly one Created, no other step pushes anything,
\* and an event is handed to the handler only for a window whose WindowData
\* is installed.
C24_CreatedOncePerCreate ==
  /\ [][WndProcNcCreate
         => /\ windows'[Top.hwnd].message_queue = <<>>
            /\ pushed' = pushed /\ delivered' = delivered
            /\ Len(stack') = Len(stack)]_vars
  /\ [][pushed' # pushed => (WndProcScope /\ Top.msg = "WM_CREATE")]_vars
  /\ [][(WndProcScope /\ Top.msg = "WM_CREATE")
         => /\ Len(pushed'[Top.hwnd]) = Len(pushed[Top.hwnd]) + 1
            /\ pushed'[Top.hwnd][Len(pushed'[Top.hwnd])].ev = "Created"]_vars
  /\ [][\A h \in Hwnds :
          delivered'[h] # delivered[h] => windows[h].live /\ slot[h] = h]_vars


\* C25: for a window with its WindowData, the events handed to the handler
\* followed by the events still in the queue are exactly the events pushed,
\* in the order of the pushes; the handler is handed one event at a time,
\* the oldest one not yet handed over, and no event leaves the queue in any
\* other way.
C25_EveryEventOnceInOrder ==
  /\ [](\A h \in Hwnds :
          windows[h].live =>
            delivered[h] \o windows[h].message_queue = Evs(pushed[h]))
  /\ [][\A h \in Hwnds :
          /\ delivered'[h] # delivered[h] =>
               /\ Len(delivered[h]) < Len(pushed[h])
               /\ delivered'[h] =
                    Append(delivered[h], pushed[h][Len(delivered[h]) + 1].ev)
          /\ (windows[h].live /\ windows'[h].live
                /\ Len(windows'[h].message_queue) < Len(windows[h].message_queue))
               => Len(delivered'[h]) = Len(delivered[h]) + 1]_vars

\* In the middle of a pass: the first of two different events is with the
\* handler and the second is still in the queue.
C25_Witness ==
  \E h \in Hwnds :
     /\ TopIs("handler") /\ Top.hwnd = h
     /\ Len(pushed[h]) = 2 /\ pushed[h][1].ev # pushed[h][2].ev
     /\ delivered[h] = <<pushed[h][1].ev>>
     /\ windows[h].message_queue = <<pushed[h][2].ev>>


C27_DecrementFindsCount ==
  [][(WndProcNcDestroy /\ slot[Top.hwnd] # 0) => window_count >= 1]_vars


\* C28: while the process runs and no create_window call is in progress, the
\* window count (None read as zero) is the number of windows that have had
\* their WM_NCCREATE and not yet their WM_NCDESTROY.
C28_CountIsLiveWindows ==
  (Running /\ ~InCall("create_window"))
    => window_count = Cardinality(LiveWindows)

\* C29: window teardown posts a quit notification exactly when its decrement
\* takes the window count from one to zero; the post-destroy of a window
\* while another window still has its WindowData posts none.
C29_QuitOnlyForLastWindow ==
  [][WndProcNcDestroy
     => LET last == slot[Top.hwnd] # 0 /\ window_count = 1 /\ window_count' = 0
        IN /\ last => QuitQueued'
           /\ ~last => msgq' = msgq
           /\ (LiveWindows \ {Top.hwnd} # {}) => msgq' = msgq]_vars

\* C30: a create_window whose native creation call fails returns the error,
\* hands no Window to the caller, and leaves the window count as it was when
\* create_window was called and every WindowData as it is.
C30_FailedCreateChangesNothing ==
  [][(NativeCreateFail \/ CreateWindowFailed)
     => /\ app'.last.res = "Err"
        /\ app'.owned = app.owned
        /\ window_count' = app.last.count
        /\ windows' = windows /\ slot' = slot
        /\ ~aborted']_vars

\* C31: the boxed user payload of a create_window call is released exactly
\* once: never twice, and once the call has failed or the window is gone
\* it has been released.
C31_PayloadReleasedOnce ==
  /\ \A h \in 0 .. MaxWindows : app.released[h] <= 1
  /\ AtMain => /\ \A h \in Hwnds : hwnds[h] = "gone" => app.released[h] = 1
               /\ app.last.res = "Err" => app.released[app.last.hwnd] = 1

\* C32: the re-entrancy count of every WindowData is the number of guards of
\* begin that are alive for it (None when there is none); a call of the
\* window procedure that does not end the process leaves the count as it
\* found it, and no release of a guard finds the count None.
C32_CountMatchesGuards ==
  /\ [](~aborted => \A h \in Hwnds :
          windows[h].live => windows[h].rentrancy_count = app.guards[h])
  /\ [][WndProcScope
        => LET d == slot[Top.hwnd]
           IN /\ guard_drop(begin(windows[d])).unwind # CountNotSet
              /\ ~aborted' => windows'[d].rentrancy_count
                                = windows[d].rentrancy_count]_vars
  /\ [][\A h \in Hwnds :
          ScopeRelease(h) => guard_drop(windows[h]).unwind # CountNotSet]_vars

\* A window procedure is on its way to the default procedure with the panic
\* of its dispatch pass captured, and the count is None again.
C32_Witness ==
  /\ Running /\ TopIs("wndproc") /\ Top.pc = "default"
  /\ Top.msg \notin {"WM_NCCREATE", "WM_NCDESTROY"}
  /\ slot[Top.hwnd] # 0
  /\ windows[slot[Top.hwnd]].live
  /\ windows[slot[Top.hwnd]].panic # NoPanic
  /\ windows[slot[Top.hwnd]].rentrancy_count = 0

\* C33: when the handler panics in a dispatch pass (with std) and the
\* process goes on, the panic is in the panic slot, the event that was with
\* the handler is out of the queue, the events behind it are in the queue in
\* their order, the queue is not borrowed, and the next events handed to the
\* handler are those, oldest first.
C33_PanicKeepsRestOfQueue ==
  /\ [][\A payload \in UserPayloads :
          (ScopeHandlerPanic(payload) /\ ~aborted')
          => LET h == Top.hwnd
             IN /\ windows'[h].panic = payload
                /\ delivered[h] # <<>>
                /\ delivered[h][Len(delivered[h])] = Top.ev
                /\ windows'[h].message_queue = windows[h].message_queue
                /\ delivered'[h] \o windows'[h].message_queue = Evs(pushed'[h])
                /\ ~windows'[h].borrowed
                /\ stack' = <<>>]_vars
  /\ [][\A h \in Hwnds :
          delivered'[h] # delivered[h]
          => /\ windows[h].message_queue # <<>>
             /\ delivered'[h] = Append(delivered[h], Head(windows[h].message_queue))
             /\ windows'[h].message_queue = Tail(windows[h].message_queue)]_vars

\* The handler panicked with the first of two events that were pushed inside
\* a scope; the second one is still in the queue, which is not borrowed.
C33_Witness ==
  \E h \in Hwnds :
     /\ stack = <<>> /\ ~aborted
     /\ windows[h].panic # NoPanic
     /\ windows[h].rentrancy_count = 0
     /\ ~windows[h].borrowed
     /\ Len(pushed[h]) = 2 /\ pushed[h][2].depth >= 1
     /\ delivered[h] = <<pushed[h][1].ev>>
     /\ windows[h].message_queue = <<pushed[h][2].ev>>

\* C34: WM_NCDESTROY never tears a WindowData down while a dispatch scope or
\* a dispatch pass of the same window is active, and no dispatch pass or
\* handler call is on the stack for a window whose WindowData has been
\* freed.
C34_NoTeardownInsidePass ==
  /\ [][(WndProcNcDestroy /\ slot[Top.hwnd] # 0)
        => /\ windows[slot[Top.hwnd]].rentrancy_count = 0
           /\ \A i \in 1 .. Len(stack) :
                 stack[i].kind \in {"process", "handler"}
                   => stack[i].hwnd # Top.hwnd]_vars
  /\ [](\A i \in 1 .. Len(stack) :
          stack[i].kind \in {"process", "handler"} => windows[stack[i].hwnd].live)

\* C35: once the waker has set the event of a running block_on, the event
\* stays set until a wait of the reactor returns 0 for it, and the task is
\* polled after that, unless block_on has returned (quit, failed wait) or
\* the process has ended before.
C35_NoWakeLost ==
  /\ (signal /\ reactor.ret = "running")
       ~> \/ TopIs("future") /\ ~signal
             /\ (reactor.fired \/ reactor.listener = "notified")
          \/ reactor.ret # "running"
          \/ aborted
  /\ [][(signal /\ ~signal' /\ reactor'.ret = "running" /\ reactor.ret = "running")
          => WaitSignal]_vars

\* The task is polled again after a wake that came while a handler was
\* running in a drain.
C35_Witness ==
  /\ TopIs("future") /\ ~signal /\ reactor.fired
  /\ reactor.task = "timer" /\ reactor.polls = 2 /\ reactor.drained
  /\ \E h \in Hwnds : delivered[h] # <<>>

C37_QuitStopsDrain ==
  [][DrainPeekQuit
     => /\ msgq' = Tail(msgq)
        /\ stack' = <<>>
        /\ reactor'.ret = "None"
        /\ reactor'.polls = reactor.polls
        /\ reactor'.listener = reactor.listener
        /\ signal' = signal
        /\ delivered' = delivered /\ pushed' = pushed
        /\ windows' = windows /\ slot' = slot /\ hwnds' = hwnds]_vars

\* block_on has returned Ok(None) with the event set by the timer and a
\* message still in the queue behind the quit notification it removed.
C37_Witness ==
  /\ AtMain
  /\ reactor.ret = "None" /\ reactor.lastPeek = "quit"
  /\ reactor.task = "timer" /\ reactor.fired /\ signal
  /\ reactor.polls = 1
  /\ msgq # <<>>

\* C38: a task waiting in wait_for_event is notified by the drain after the
\* first message it dispatches, which sets the reactor's event, and the task
\* is polled again (unless block_on returns or the process ends before);
\* the reactor never waits with the event unset while the notified task has
\* not been polled, and wait_for_event completes only after a message was
\* dispatched by a drain of this block_on.
C38_MessageWakesListener ==
  /\ (reactor.task = "listener" /\ reactor.ret = "running" /\ InBlockOn("dispatched"))
       ~> \/ TopIs("future") /\ reactor.listener = "notified"
          \/ reactor.ret # "running"
          \/ aborted
  /\ [][(reactor'.listener = "notified" /\ reactor.listener # "notified")
          => (DrainDispatched /\ reactor.listener = "listening" /\ signal')]_vars
  /\ []((InBlockOn("wait") /\ reactor.listener = "notified") => signal)
  /\ []((reactor.task = "listener" /\ reactor.ret = "Some")
          => (reactor.listener = "notified" /\ reactor.drained
                /\ reactor.lastPeek = "empty"))

\* The task that waited for a message is polled for the second time, after
\* the drain dispatched a message and the wait returned for the event.
C38_Witness ==
  /\ TopIs("future")
  /\ reactor.task = "listener" /\ reactor.listener = "notified"
  /\ reactor.polls = 2 /\ reactor.drained
  /\ ~signal

\* C39: the extensibility slot is read as a Window State only when it holds
\* one: when native creation has succeeded and create_window is about to
\* propagate, the slot of the new handle is non-null and holds a live
\* WindowData, whatever the class of the window; and the WM_NCDESTROY arm
\* never starts with a null slot.
C39_SlotHoldsWindowData ==
  /\ (/\ Running /\ TopIs("create_window")
      /\ \/ Top.pc = "return" /\ hwnds[Top.hwnd] = "window"
         \/ Top.pc = "propagate")
       => (slot[Top.hwnd] # 0 /\ windows[slot[Top.hwnd]].live)
  /\ (InWndProc("entry") /\ ValidWindow(Top.hwnd) /\ Top.msg = "WM_NCDESTROY")
       => slot[Top.hwnd] # 0

====
